---- MODULE Spec2Model ----
(***************************************************************************)
(* A model of PFH-OSNet: the training engine ImageTripletEngine            *)
(* (src/torchreid/engine/image/triplet.py) and the network of              *)
(* src/torchreid/models/pfh_osnet.py (ChannelGate, OSBlock, OSNet and the  *)
(* pretrained-weight loader init_pretrained_weights).                      *)
(*                                                                         *)
(* Tensors are abstracted to small integers. An optional argument is a     *)
(* record with a field none (open_layers) or a boolean "is configured"     *)
(* (writer, scheduler).                                                    *)
(***************************************************************************)
EXTENDS Integers, Sequences, FiniteSets, TLC

\* ------------------------------------------------------------------ bounds
MaxWeight == 1
MaxLoss == 1
MaxBatches == 2
MaxEpoch == 3
MaxFix == 2
MaxPrintFreq == 2
MaxCalls == 2
MaxDelta == 3
MaxReduction == 4
MaxCkpt == 2
MaxData == 2
MaxX == 2

\* reduction=16 of ChannelGate.__init__, bottleneck_reduction=4 of OSBlock.__init__
GateReduction == 16
BottleneckReduction == 4

Weights == 0..MaxWeight
LossVals == 0..MaxLoss
Epochs == 0..(MaxEpoch - 1)

\* print_freq=10 of train's signature
DefaultPrintFreq == 10

\* The named children of the OSNet instance the engine trains (a sample of
\* the attributes OSNet.__init__ assigns).
Layers == {"conv1", "conv5", "classifier"}

\* open_layers=None, and open_layers given as a list of layer names.
NoOpenLayers == [none |-> TRUE, names |-> {}]
OpenLayers(names) == [none |-> FALSE, names |-> names]
OpenLayerChoices == {NoOpenLayers} \cup {OpenLayers(s) : s \in SUBSET Layers}

VARIABLES
    \* ImageTripletEngine
    engine,         \* weight_t, weight_x, weight_c, criterion_c, scheduler, num_batches
    pc,             \* "idle": no train call is running; "loop": inside train
    call,           \* the arguments of the running (or last) train call
    trainable,      \* the layers whose parameters have requires_grad
    batch_idx,      \* the index of the next batch of the running call
    batch,          \* the locals of the last batch: the losses and their sum
    steps,          \* optimizer / scheduler steps of the running (or last) call
    written,        \* batch indices of this call with writer.add_scalar calls
    printed,        \* batch indices of this call with a progress line
    n_iter,         \* the step key of the last writer emission, -1 before any
    prev_iter,      \* the step key of the emission before that one, -1 if none
    wasFrozen,      \* some layer was frozen when the running call began
    prevEpoch,      \* the epoch of the last train call begun, -1 before any
    consecutive,    \* all calls so far were for epochs 0, 1, 2, ... in order
    \* OSNet
    training,       \* model.training (nn.Module's mode flag)
    net,            \* the OSNet instance: its loss mode and head parameters
    inp,            \* the last forward call: its input, mode and flag
    out,            \* what the last forward call returned or raised
    ncalls,         \* the number of forward calls made on the instance
    \* ChannelGate, OSBlock
    gate_args,      \* the arguments of the last ChannelGate(...) call
    gate,           \* what that call constructed or raised
    block_args,     \* the arguments of the last OSBlock(...) call
    block,          \* what that call constructed or raised
    \* OSBlock.forward
    osb,            \* the OSBlock instance that is called
    osb_params,     \* the parameters of its gate modules: name -> parameters
    fwd,            \* the locals and the result of the last forward call
    \* init_pretrained_weights
    state_dict,     \* the checkpoint: a sequence of (key, tensor) items
    model_dict,     \* the model's parameters: key -> tensor
    matched_layers,
    discarded_layers,
    loaded          \* init_pretrained_weights has run

engineVars == <<engine, pc, call, trainable, batch_idx, batch, steps,
                written, printed, n_iter, prev_iter, wasFrozen, prevEpoch,
                consecutive>>

netVars == <<net, inp, out, ncalls>>

blockVars == <<gate_args, gate, block_args, block>>

loadVars == <<state_dict, model_dict, matched_layers, discarded_layers, loaded>>

fwdVars == <<osb, osb_params, fwd>>

vars == <<engineVars, training, netVars, blockVars, fwdVars, loadVars>>

\* What the operations of one component leave alone.
notEngine == <<netVars, blockVars, fwdVars, loadVars>>
notNet == <<engineVars, blockVars, fwdVars, loadVars>>
notBlock == <<engineVars, training, netVars, fwdVars, loadVars>>
notFwd == <<engineVars, training, netVars, blockVars, loadVars>>
notLoad == <<engineVars, training, netVars, blockVars, fwdVars>>

\* ------------------------------------------------------- ImageTripletEngine

RECURSIVE SumSeq(_)
SumSeq(s) == IF s = <<>> THEN 0 ELSE Head(s) + SumSeq(Tail(s))

\* __init__: the weights are stored; the four CenterLoss criteria are built
\* only when weight_c != 0.
EngineBuilt(wt, wx, wc, sched, n) ==
    [weight_t |-> wt, weight_x |-> wx, weight_c |-> wc,
     criterion_c |-> (wc # 0), scheduler |-> sched, num_batches |-> n]

NoBatch == [loss_t |-> 0, loss_x |-> 0, loss_cs |-> <<>>, loss_c |-> 0, loss |-> 0]

EngineInit(wt, wx, wc, sched, n) ==
    /\ engine = EngineBuilt(wt, wx, wc, sched, n)
    /\ pc = "idle"
    /\ call = [epoch |-> 0, writer |-> FALSE, print_freq |-> DefaultPrintFreq,
               fixbase_epoch |-> 0, open_layers |-> NoOpenLayers]
    /\ trainable = Layers
    /\ batch_idx = 0
    /\ batch = NoBatch
    /\ steps = <<>>
    /\ written = {}
    /\ printed = {}
    /\ n_iter = -1
    /\ prev_iter = -1
    /\ wasFrozen = FALSE
    /\ prevEpoch = -1
    /\ consecutive = TRUE

\* torchreid.utils.open_specified_layers: every child named in open_layers
\* is made trainable, every other child is frozen.
open_specified_layers(layers, names) == layers \cap names

\* torchreid.utils.open_all_layers: every parameter is made trainable.
open_all_layers(layers) == layers

FixbaseActiveOffByOne(e, fix, ol) == e <= fix /\ ~ol.none

\* if (epoch + 1) <= fixbase_epoch and open_layers is not None
FixbaseActive(e, fix, ol) == (e + 1) <= fix /\ ~ol.none

TrainBegin(e, w, pf, fix, ol) ==
    /\ pc = "idle"
    /\ call' = [epoch |-> e, writer |-> w, print_freq |-> pf,
                fixbase_epoch |-> fix, open_layers |-> ol]
    /\ training' = TRUE
    /\ trainable' = IF FixbaseActive(e, fix, ol)
                    THEN open_specified_layers(Layers, ol.names)
                    ELSE open_all_layers(Layers)
    /\ batch_idx' = 0
    /\ batch' = NoBatch
    /\ steps' = <<>>
    /\ written' = {}
    /\ printed' = {}
    /\ prevEpoch' = e
    /\ consecutive' = (consecutive /\ e = prevEpoch + 1)
    /\ wasFrozen' = (trainable # Layers)
    /\ pc' = "loop"
    /\ UNCHANGED <<engine, n_iter, prev_iter, notEngine>>

TotalLossNoCenter(wt, lt, wx, lx, wc, lc) == wt * lt + wx * lx

\* loss = self.weight_t * loss_t + self.weight_x * loss_x + self.weight_c * loss_c
TotalLoss(wt, lt, wx, lx, wc, lc) == wt * lt + wx * lx + wc * lc

NIterNoEpoch(e, n, b) == b

\* n_iter = epoch * num_batches + batch_idx
NIter(e, n, b) == e * n + b

StepOptimizer(log) == Append(log, "optimizer")

StepSchedulerAlways(sched, log) == Append(log, "scheduler")

\* if self.scheduler is not None: self.scheduler.step()
StepScheduler(sched, log) == IF sched THEN Append(log, "scheduler") ELSE log

\* if (batch_idx + 1) % print_freq == 0: the progress line is printed
PrintsLine(b, pf) == (b + 1) % pf = 0

WritesScalarsWhenPrinting(w, b, pf) == w /\ (b + 1) % pf = 0

\* if writer is not None: the add_scalar calls, after and outside the
\* print_freq test
WritesScalars(w, b, pf) == w

\* One iteration of the batch loop. lt and lx are the values of the triplet
\* and the cross-entropy criterion on this batch, lcs those of the four
\* center criteria (evaluated only when weight_c != 0).
TrainBatch(lt, lx, lcs) ==
    /\ pc = "loop"
    /\ batch_idx < engine.num_batches
    /\ engine.weight_c # 0 => engine.criterion_c
    /\ LET centers == IF engine.weight_c # 0 THEN lcs ELSE <<>>
           wc == IF engine.weight_c # 0 THEN engine.weight_c ELSE 0
           lc == IF engine.weight_c # 0 THEN SumSeq(centers) ELSE 0
       IN /\ engine' = [engine EXCEPT !.weight_c = wc]
          /\ batch' = [loss_t |-> lt, loss_x |-> lx, loss_cs |-> centers,
                       loss_c |-> lc,
                       loss |-> TotalLoss(engine.weight_t, lt,
                                          engine.weight_x, lx, wc, lc)]
    /\ steps' = StepOptimizer(steps)
    /\ printed' = IF PrintsLine(batch_idx, call.print_freq)
                  THEN printed \cup {batch_idx} ELSE printed
    /\ IF WritesScalars(call.writer, batch_idx, call.print_freq)
       THEN /\ n_iter' = NIter(call.epoch, engine.num_batches, batch_idx)
            /\ prev_iter' = n_iter
            /\ written' = written \cup {batch_idx}
       ELSE UNCHANGED <<n_iter, prev_iter, written>>
    /\ batch_idx' = batch_idx + 1
    /\ UNCHANGED <<pc, call, training, trainable, wasFrozen, prevEpoch,
                   consecutive, notEngine>>

\* The loop is exhausted: the scheduler, if any, is stepped and train returns.
TrainEnd ==
    /\ pc = "loop"
    /\ batch_idx = engine.num_batches
    /\ steps' = StepScheduler(engine.scheduler, steps)
    /\ pc' = "idle"
    /\ UNCHANGED <<engine, call, training, trainable, batch_idx, batch,
                   written, printed, n_iter, prev_iter, wasFrozen, prevEpoch,
                   consecutive, notEngine>>

\* The values of the four center criteria on a batch.
CenterVals == {0, 1}
CenterTuples == CenterVals \X CenterVals \X CenterVals \X CenterVals

\* ------------------------------------------------------------------- OSNet

Heads == 1..4
Samples == {1, 2}
FeatVals == {0, 1}
LossModes == {"softmax", "triplet", "center"}

Sgn(z) == IF z > 0 THEN 1 ELSE IF z < 0 THEN -1 ELSE 0

\* nn.BatchNorm1d in training mode, on one feature of a batch of two samples:
\* (x - mean) / sqrt(var + eps) is the sign of x - mean (eps taken as 0),
\* scaled by the layer's weight and shifted by its bias.
BatchNormTrain(w, b, x) ==
    [s \in Samples |-> w * Sgn(2 * x[s] - (x[1] + x[2])) + b]

\* nn.BatchNorm1d in evaluation mode, with the running statistics a
\* constructed layer has (mean 0, variance 1; the momentum update made by a
\* training-mode forward is not modelled).
BatchNormEval(w, b, x) == [s \in Samples |-> w * x[s] + b]

\* F.normalize(v, p=2, dim=1) of a one-feature vector.
Normalize(x) == [s \in Samples |-> Sgn(x[s])]

\* nn.Linear with one input feature and one class.
Linear(w, b, x) == [s \in Samples |-> w * x[s] + b]

\* OSNet.__init__ and _init_params: the loss mode is stored unchecked; every
\* BatchNorm1d has weight 1 and bias 0, every classifier a drawn weight cw
\* and bias 0.
OSNetBuilt(loss, cw) ==
    [loss |-> loss,
     bn_weight |-> [h \in Heads |-> 1], bn_bias |-> [h \in Heads |-> 0],
     cls_weight |-> cw, cls_bias |-> [h \in Heads |-> 0]]

ClsWeights == {[h \in Heads |-> h]}

InputBatches == [Heads -> [Samples -> FeatVals]]

TrainingOutputPostBN(loss, y, v_, v) ==
    IF loss = "softmax" THEN [kind |-> "logits", y |-> y]
    ELSE IF loss = "triplet" THEN [kind |-> "triplet", y |-> y, v |-> v]
    ELSE [kind |-> "KeyError"]

TrainingOutputNoRaise(loss, y, v_, v) ==
    IF loss = "triplet" THEN [kind |-> "triplet", y |-> y, v |-> v_]
    ELSE [kind |-> "logits", y |-> y]

\* The end of forward: y is the list of logits, v_ the list of pooled vectors
\* taken before batch normalization, v the list of vectors after it.
TrainingOutput(loss, y, v_, v) ==
    IF loss = "softmax" THEN [kind |-> "logits", y |-> y]
    ELSE IF loss = "triplet" THEN [kind |-> "triplet", y |-> y, v |-> v_]
    ELSE [kind |-> "KeyError"]

\* OSNet.forward. x is the result of featuremaps, one channel and one
\* position per head and sample, so that global_avgpool and view keep its
\* values.
forward(n, tr, x, return_featuremaps) ==
    IF return_featuremaps THEN [kind |-> "featuremaps", c |-> x[4]]
    ELSE LET v_ == x
             v == [h \in Heads |-> IF tr
                                   THEN BatchNormTrain(n.bn_weight[h], n.bn_bias[h], x[h])
                                   ELSE BatchNormEval(n.bn_weight[h], n.bn_bias[h], x[h])]
             y == [h \in Heads |-> Linear(n.cls_weight[h], n.cls_bias[h], v[h])]
         IN IF ~tr
            THEN [kind |-> "descriptor", cat |-> [h \in Heads |-> Normalize(v[h])]]
            ELSE TrainingOutput(n.loss, y, v_, v)

NoCall == [x |-> [h \in Heads |-> [s \in Samples |-> 0]], training |-> TRUE,
           return_featuremaps |-> FALSE]

NetInit(loss, cw) ==
    /\ net = OSNetBuilt(loss, cw)
    /\ inp = NoCall
    /\ out = [kind |-> "none"]
    /\ ncalls = 0

\* model.train() / model.eval()
SetTrain ==
    /\ ~training
    /\ training' = TRUE
    /\ UNCHANGED <<netVars, notNet>>

SetEval ==
    /\ training
    /\ training' = FALSE
    /\ UNCHANGED <<netVars, notNet>>

\* model(x) or model(x, return_featuremaps=True)
Forward(x, rf) ==
    /\ ncalls < MaxCalls
    /\ inp' = [x |-> x, training |-> training, return_featuremaps |-> rf]
    /\ out' = forward(net, training, x, rf)
    /\ ncalls' = ncalls + 1
    /\ UNCHANGED <<net, training, notNet>>

\* ------------------------------------------------------ ChannelGate, OSBlock

Activations == {"sigmoid", "relu", "linear", "tanh", "softmax"}

GateActivationNoCheck(tag) ==
    IF tag = "sigmoid" THEN [kind |-> "ok", module |-> "Sigmoid"]
    ELSE IF tag = "relu" THEN [kind |-> "ok", module |-> "ReLU"]
    ELSE [kind |-> "ok", module |-> "None"]

\* The if / elif chain that ends ChannelGate.__init__.
GateActivation(tag) ==
    IF tag = "sigmoid" THEN [kind |-> "ok", module |-> "Sigmoid"]
    ELSE IF tag = "relu" THEN [kind |-> "ok", module |-> "ReLU"]
    ELSE IF tag = "linear" THEN [kind |-> "ok", module |-> "None"]
    ELSE [kind |-> "RuntimeError"]

\* ChannelGate.__init__; num_gates = 0 stands for None.
ChannelGate(in_channels, num_gates, return_gates, gate_activation, reduction, layer_norm) ==
    LET ng == IF num_gates = 0 THEN in_channels ELSE num_gates
        act == GateActivation(gate_activation)
    IN IF act.kind = "RuntimeError"
       THEN [kind |-> "RuntimeError"]
       ELSE [kind |-> "ChannelGate",
             return_gates |-> return_gates,
             fc1 |-> [in_channels |-> in_channels,
                      out_channels |-> in_channels \div reduction],
             norm1 |-> layer_norm,
             fc2 |-> [in_channels |-> in_channels \div reduction,
                      out_channels |-> ng],
             gate_activation |-> act.module]

MidChannelsCeil(out_channels, bottleneck_reduction) ==
    (out_channels + bottleneck_reduction - 1) \div bottleneck_reduction

\* mid_channels = out_channels // bottleneck_reduction
MidChannels(out_channels, bottleneck_reduction) ==
    out_channels \div bottleneck_reduction

\* OSBlock.__init__ (IN_ is its parameter IN)
OSBlock(in_channels, out_channels, IN_, bottleneck_reduction) ==
    LET mid_channels == MidChannels(out_channels, bottleneck_reduction)
        g == ChannelGate(mid_channels, 0, FALSE, "sigmoid", GateReduction, FALSE)
    IN IF g.kind = "RuntimeError"
       THEN [kind |-> "RuntimeError"]
       ELSE [kind |-> "OSBlock",
             in_channels |-> in_channels,
             mid_channels |-> mid_channels,
             out_channels |-> out_channels,
             gate |-> g,
             conv3 |-> [in_channels |-> mid_channels, out_channels |-> out_channels],
             downsample |-> (in_channels # out_channels),
             IN_ |-> IN_]

BlockInit ==
    /\ gate_args = [gate_activation |-> "sigmoid"]
    /\ gate = [kind |-> "none"]
    /\ block_args = [out_channels |-> 0, bottleneck_reduction |-> BottleneckReduction]
    /\ block = [kind |-> "none"]

\* ChannelGate(...) is called: the object exists afterwards, or the call raised.
NewChannelGate(in_channels, num_gates, return_gates, gate_activation, reduction, layer_norm) ==
    /\ gate_args' = [gate_activation |-> gate_activation]
    /\ gate' = ChannelGate(in_channels, num_gates, return_gates, gate_activation,
                           reduction, layer_norm)
    /\ UNCHANGED <<block_args, block, notBlock>>

\* OSBlock(...) is called.
NewOSBlock(in_channels, out_channels, IN_, bottleneck_reduction) ==
    /\ block_args' = [out_channels |-> out_channels,
                      bottleneck_reduction |-> bottleneck_reduction]
    /\ block' = OSBlock(in_channels, out_channels, IN_, bottleneck_reduction)
    /\ UNCHANGED <<gate_args, gate, notBlock>>

\* ------------------------------------------------------------ OSBlock.forward

\* A tensor is one channel of one sample at two spatial positions. The block
\* is called in evaluation mode: a BatchNorm2d is then an affine map, taken
\* into the weight of the convolution before it; InstanceNorm2d normalizes
\* with the statistics of its input in either mode.
Pos == {1, 2}
Other(i) == IF i = 1 THEN 2 ELSE 1
XVals == 0..MaxX
BlockInputs == XVals \X XVals

Relu1(v) == IF v > 0 THEN v ELSE 0
Relu(x) == <<Relu1(x[1]), Relu1(x[2])>>
Scale(w, x) == <<w * x[1], w * x[2]>>
Plus(x, y) == <<x[1] + y[1], x[2] + y[2]>>

\* Conv1x1: conv + bn + relu
Conv1x1(w, x) == Relu(Scale(w, x))

\* Conv1x1Linear: conv + bn, no non-linearity
Conv1x1Linear(w, x) == Scale(w, x)

\* LightConv3x3: 1x1 conv, depthwise 3x3 conv (padding 1: each position also
\* sees its neighbour), bn, relu
LightConv3x3(p, x) ==
    LET y == Scale(p.w, x)
    IN Relu(<<p.kc * y[1] + p.kn * y[Other(1)], p.kc * y[2] + p.kn * y[Other(2)]>>)

RECURSIVE Stack(_, _, _)
\* nn.Sequential of depth LightConv3x3 layers
Stack(depth, p, x) ==
    IF depth = 0 THEN x ELSE Stack(depth - 1, p, LightConv3x3(p, x))

\* nn.Sigmoid in eighths, rounded: 8 * sigmoid(z)
Sigmoid8(z) ==
    IF z <= -3 THEN 0 ELSE IF z = -2 THEN 1 ELSE IF z = -1 THEN 2
    ELSE IF z = 0 THEN 4 ELSE IF z = 1 THEN 6 ELSE IF z = 2 THEN 7 ELSE 8

\* ChannelGate.forward of the gate g with parameters p; fc1's weight counts
\* halves, so that fc1(global_avgpool(x)) is fc1_w * (x[1] + x[2]) + fc1_b.
\* The gate, and with it the gated tensor, is in eighths.
ChannelGateForward(g, p, x) ==
    LET pooled == x[1] + x[2]
        h0 == p.fc1_w * pooled + p.fc1_b
        h1 == IF g.norm1 THEN p.norm1_b ELSE h0
        h2 == IF h1 > 0 THEN h1 ELSE 0
        z == p.fc2_w * h2 + p.fc2_b
        a == IF g.gate_activation = "Sigmoid" THEN Sigmoid8(z)
             ELSE IF g.gate_activation = "ReLU" THEN 8 * (IF z > 0 THEN z ELSE 0)
             ELSE 8 * z
    IN IF g.return_gates THEN <<a, a>> ELSE Scale(a, x)

\* The parameters a gate may hold.
GateParamVals ==
    [fc1_w : {1}, fc1_b : {0}, norm1_b : {0}, fc2_w : {-1, 0, 1}, fc2_b : {-1, 0, 1}]

\* The branches of the block and the depth of each: conv2a .. conv2d.
Branches == {"a", "b", "c", "d"}
Depth(br) == IF br = "a" THEN 1 ELSE IF br = "b" THEN 2 ELSE IF br = "c" THEN 3 ELSE 4

BranchGateOwn(br) == <<"gate", br>>

\* The gate module that forward applies to the output of a branch:
\* self.gate(x2a) + self.gate(x2b) + self.gate(x2c) + self.gate(x2d)
BranchGate(br) == <<"gate">>

\* The gate modules of a block.
GateNames == {BranchGate(br) : br \in Branches}

\* The other parameters of the block (fixed here): conv1, the LightConv3x3
\* layers, conv3, downsample, and the affine InstanceNorm2d.
BlockWeights ==
    [conv1 |-> 1, light |-> [w |-> 1, kc |-> 2, kn |-> 1], conv3 |-> 1,
     downsample |-> 3, IN_w |-> 1, IN_b |-> 0]

\* nn.InstanceNorm2d(affine=True) over the two positions: (x - mean) /
\* sqrt(var + eps) is the sign of x - mean (eps taken as 0), which at each
\* position is the sign of its difference from the other position.
InstanceNorm(w, b, x) ==
    <<w * Sgn(x[1] - x[2]) + b, w * Sgn(x[2] - x[1]) + b>>

\* x2 = gate(x2a) + gate(x2b) + gate(x2c) + gate(x2d)
Fuse(ga, gb, gc, gd) == Plus(Plus(Plus(ga, gb), gc), gd)

ResidualOutNoNorm(blk, x3, identity) == Plus(x3, identity)

\* out = x3 + identity; if self.IN is not None: out = self.IN(out)
ResidualOut(blk, x3, identity) ==
    LET out0 == Plus(x3, identity)
    IN IF blk.IN_ THEN InstanceNorm(BlockWeights.IN_w, BlockWeights.IN_b, out0)
       ELSE out0

\* x1 = conv1(x) and x2a .. x2d = conv2a(x1) .. conv2d(x1): the output of
\* branch br for the block input x
BranchOut(x, br) ==
    Stack(Depth(br), BlockWeights.light, Conv1x1(BlockWeights.conv1, x))

\* self.gate(x2a) .. self.gate(x2d): the gated output of branch br
GatedBranch(blk, params, x, br) ==
    ChannelGateForward(blk.gate, params[BranchGate(br)], BranchOut(x, br))

\* OSBlock.forward: its locals and the returned pair. identity is in the
\* unit of x, multiplied by 8 where it meets the gated values.
OSBlockForward(blk, params, x) ==
    LET branch == [br \in Branches |-> BranchOut(x, br)]
        gated == [br \in Branches |-> GatedBranch(blk, params, x, br)]
        x2 == Fuse(gated["a"], gated["b"], gated["c"], gated["d"])
        x3 == Conv1x1Linear(BlockWeights.conv3, x2)
        identity == IF blk.downsample
                    THEN Conv1x1Linear(BlockWeights.downsample, x)
                    ELSE x
        out1 == ResidualOut(blk, x3, Scale(8, identity))
    IN [kind |-> "ret", x |-> x, params |-> params, branch |-> branch,
        gated |-> gated, x2 |-> x2, x3 |-> x3, identity |-> identity,
        out |-> out1, ret |-> <<Relu(out1), x2>>]

FwdIdle ==
    /\ osb = OSBlock(256, 256, FALSE, BottleneckReduction)
    /\ osb_params = [g \in GateNames |-> [fc1_w |-> 1, fc1_b |-> 0, norm1_b |-> 0,
                                          fc2_w |-> 0, fc2_b |-> 0]]
    /\ fwd = [kind |-> "none"]

\* A block is built (two of the shapes OSNet builds, with or without IN) and
\* its gate modules hold some parameters.
FwdInit ==
    /\ \E c \in {64, 256}, IN_ \in BOOLEAN :
          osb = OSBlock(c, 256, IN_, BottleneckReduction)
    /\ osb_params \in [GateNames -> GateParamVals]
    /\ fwd = [kind |-> "none"]

\* block(x)
CallOSBlock(x) ==
    /\ fwd' = OSBlockForward(osb, osb_params, x)
    /\ UNCHANGED <<osb, osb_params, notFwd>>

\* The parameters of one gate module are changed (an optimizer step, or a
\* load of weights).
SetGateParams(g, p) ==
    /\ osb_params[g] # p
    /\ osb_params' = [osb_params EXCEPT ![g] = p]
    /\ UNCHANGED <<osb, fwd, notFwd>>

\* ---------------------------------------------------- init_pretrained_weights

\* A parameter name is the sequence of its dot-separated parts:
\* 'module.conv2.0.w' is <<"module", "conv2", "0", "w">>.
StartsWith(k, p) == Len(k) >= Len(p) /\ SubSeq(k, 1, Len(p)) = p

\* str.replace: every occurrence of old, left to right, becomes new.
RECURSIVE Replace(_, _, _)
Replace(k, old, new) ==
    IF k = <<>> THEN <<>>
    ELSE IF StartsWith(k, old)
         THEN new \o Replace(SubSeq(k, Len(old) + 1, Len(k)), old, new)
         ELSE <<Head(k)>> \o Replace(Tail(k), old, new)

\* if k.startswith(old): k = k.replace(old, new)
Rule(k, old, new) == IF StartsWith(k, old) THEN Replace(k, old, new) ELSE k

\* if k.startswith('module.'): k = k[7:]
StripModule(k) == IF StartsWith(k, <<"module">>) /\ Len(k) > 1 THEN Tail(k) ELSE k

\* The renaming of the legacy names, rule after rule as the code applies them.
Rename(k0) ==
    LET k1 == Rule(k0, <<"conv2", "0">>, <<"conv2_0">>)
        k2 == Rule(k1, <<"conv2", "1">>, <<"conv2_1">>)
        k3 == Rule(k2, <<"conv2", "2", "0">>, <<"conv2_2">>)
        k4 == Rule(k3, <<"conv3", "0">>, <<"conv3_0">>)
        k5 == Rule(k4, <<"conv3", "1">>, <<"conv3_1">>)
        k6 == Rule(k5, <<"conv3", "2", "0">>, <<"conv3_2">>)
        k7 == Rule(k6, <<"conv4", "0">>, <<"conv4_0">>)
        k8 == Rule(k7, <<"conv4", "1">>, <<"conv4_1">>)
    IN k8

KeyMatchesAnyShape(md, k, v) == k \in DOMAIN md

\* if k in model_dict and model_dict[k].size() == v.size()
KeyMatches(md, k, v) == k \in DOMAIN md /\ md[k].size = v.size

\* The loop over state_dict.items(): st is the triple of new_state_dict (a
\* function on the keys set so far), matched_layers and discarded_layers.
RECURSIVE LoadLoop(_, _, _)
LoadLoop(items, md, st) ==
    IF items = <<>> THEN st
    ELSE LET k == Rename(StripModule(Head(items).key))
             v == Head(items).tensor
         IN IF KeyMatches(md, k, v)
            THEN LoadLoop(Tail(items), md,
                          [new_state_dict |->
                               [j \in DOMAIN st.new_state_dict \cup {k} |->
                                    IF j = k THEN v ELSE st.new_state_dict[j]],
                           matched_layers |-> Append(st.matched_layers, k),
                           discarded_layers |-> st.discarded_layers])
            ELSE LoadLoop(Tail(items), md,
                          [st EXCEPT !.discarded_layers = Append(@, k)])

\* model_dict.update(new_state_dict)
Update(md, new) == [k \in DOMAIN md |-> IF k \in DOMAIN new THEN new[k] ELSE md[k]]

Tensor(size, data) == [size |-> size, data |-> data]

\* The parameters of the model before loading: name, size and data.
ModelDict0 ==
    (<<"conv2_0", "w">> :> Tensor(1, 0)) @@ (<<"conv2_2", "w">> :> Tensor(1, 0))
    @@ (<<"classifier", "w">> :> Tensor(2, 0))

CkptKeys == {<<"module", "conv2", "0", "w">>, <<"conv2", "0", "w">>,
             <<"conv2_0", "w">>, <<"conv2", "2", "0", "w">>,
             <<"classifier", "w">>, <<"fc", "w">>}

CkptItems == [key : CkptKeys, tensor : [size : {1, 2}, data : 1..MaxData]]

\* The checkpoints torch.load may return: ordered mappings, so no key twice.
Checkpoints ==
    UNION {{c \in [1..n -> CkptItems] :
               \A i, j \in 1..n : i # j => c[i].key # c[j].key} : n \in 0..MaxCkpt}

LoadInit ==
    /\ state_dict \in Checkpoints
    /\ model_dict = ModelDict0
    /\ matched_layers = <<>>
    /\ discarded_layers = <<>>
    /\ loaded = FALSE

\* init_pretrained_weights(model, key), from torch.load on.
InitPretrainedWeights ==
    /\ ~loaded
    /\ LET st == LoadLoop(state_dict, model_dict,
                          [new_state_dict |-> <<>>, matched_layers |-> <<>>,
                           discarded_layers |-> <<>>])
       IN /\ model_dict' = Update(model_dict, st.new_state_dict)
          /\ matched_layers' = st.matched_layers
          /\ discarded_layers' = st.discarded_layers
    /\ loaded' = TRUE
    /\ UNCHANGED <<state_dict, notLoad>>

\* ----------------------------------------------------------- specifications

EngineIdle == EngineInit(1, 1, 0, FALSE, 0)
NetIdle == training = TRUE /\ NetInit("softmax", [h \in Heads |-> h])
LoadIdle ==
    /\ state_dict = <<>>
    /\ model_dict = ModelDict0
    /\ matched_layers = <<>>
    /\ discarded_layers = <<>>
    /\ loaded = FALSE

\* --- layer freezing: train calls with any epoch, fixbase_epoch, open_layers
InitFreeze ==
    /\ \E sched \in BOOLEAN, n \in 0..MaxBatches : EngineInit(1, 1, 0, sched, n)
    /\ NetIdle /\ BlockInit /\ FwdIdle /\ LoadIdle

BeginFreeze ==
    \E e \in Epochs, fix \in 0..MaxFix, ol \in OpenLayerChoices :
        TrainBegin(e, FALSE, DefaultPrintFreq, fix, ol)

BatchFreeze == \E lt \in LossVals, lx \in LossVals : TrainBatch(lt, lx, <<0, 0, 0, 0>>)

NextFreeze == BeginFreeze \/ BatchFreeze \/ TrainEnd

SpecFreeze == InitFreeze /\ [][NextFreeze]_vars

\* --- loss composition and stepping: engines built with any weights
InitLoss ==
    /\ \E wt \in Weights, wx \in Weights, wc \in Weights, sched \in BOOLEAN,
          n \in 0..MaxBatches : EngineInit(wt, wx, wc, sched, n)
    /\ NetIdle /\ BlockInit /\ FwdIdle /\ LoadIdle

BeginLoss == TrainBegin(0, FALSE, DefaultPrintFreq, 0, NoOpenLayers)

BatchLoss ==
    \E lt \in LossVals, lx \in LossVals, lcs \in CenterTuples : TrainBatch(lt, lx, lcs)

NextLoss == BeginLoss \/ BatchLoss \/ TrainEnd

SpecLoss == InitLoss /\ [][NextLoss]_vars

\* --- reporting: train calls with or without a writer, any print_freq
InitLog ==
    /\ \E sched \in BOOLEAN, n \in 0..MaxBatches : EngineInit(1, 1, 0, sched, n)
    /\ NetIdle /\ BlockInit /\ FwdIdle /\ LoadIdle

BeginLog ==
    \E e \in Epochs, w \in BOOLEAN, pf \in 1..MaxPrintFreq :
        TrainBegin(e, w, pf, 0, NoOpenLayers)

BatchLog == TrainBatch(0, 0, <<0, 0, 0, 0>>)

NextLog == BeginLog \/ BatchLog \/ TrainEnd

SpecLog == InitLog /\ [][NextLog]_vars

\* --- OSNet: instances of any loss mode, forward in either mode
InitNet ==
    /\ training = TRUE
    /\ \E loss \in LossModes, cw \in ClsWeights : NetInit(loss, cw)
    /\ EngineIdle /\ BlockInit /\ FwdIdle /\ LoadIdle

ForwardAny == \E x \in InputBatches, rf \in BOOLEAN : Forward(x, rf)

NextNet == SetTrain \/ SetEval \/ ForwardAny

SpecNet == InitNet /\ [][NextNet]_vars

\* --- ChannelGate and OSBlock construction
InitBlock == BlockInit /\ EngineIdle /\ NetIdle /\ FwdIdle /\ LoadIdle

NewGateAny ==
    \E c \in {16, 64}, ng \in {0, 32}, rg \in BOOLEAN, act \in Activations,
       ln \in BOOLEAN : NewChannelGate(c, ng, rg, act, GateReduction, ln)

NewBlockAny ==
    \E c \in {64, 256}, base \in {256, 384}, d \in 0..MaxDelta, IN_ \in BOOLEAN,
       r \in 1..MaxReduction : NewOSBlock(c, base + d, IN_, r)

NextBlock == NewGateAny \/ NewBlockAny

SpecBlock == InitBlock /\ [][NextBlock]_vars

\* --- the pretrained-weight loader on any checkpoint
InitLoad == LoadInit /\ EngineIdle /\ NetIdle /\ BlockInit /\ FwdIdle

NextLoad == InitPretrainedWeights

SpecLoad == InitLoad /\ [][NextLoad]_vars

\* --- OSBlock.forward on any input, between changes of the gate parameters
InitForward == FwdInit /\ EngineIdle /\ NetIdle /\ BlockInit /\ LoadIdle

CallAny == \E x \in BlockInputs : CallOSBlock(x)

SetGateAny == \E g \in GateNames, p \in GateParamVals : SetGateParams(g, p)

NextForward == CallAny \/ SetGateAny

SpecForward == InitForward /\ [][NextForward]_vars

\* ------------------------------------------------------------------ claims

\* C1: during a train call with a non-empty open_layers set L, exactly the
\* layers of L are trainable when epoch < fixbase_epoch, and every layer is
\* trainable when epoch >= fixbase_epoch, whatever earlier calls froze.
C1_FixbaseFreezing ==
    (pc = "loop" /\ ~call.open_layers.none /\ call.open_layers.names # {}) =>
        IF call.epoch < call.fixbase_epoch
        THEN trainable = call.open_layers.names
        ELSE trainable = Layers

C1_Witness ==
    /\ pc = "loop"
    /\ batch_idx > 0
    /\ call.open_layers = OpenLayers({"classifier"})
    /\ call.fixbase_epoch = 2
    /\ call.epoch = 2
    /\ wasFrozen
    /\ trainable = Layers

\* C2: the backpropagated scalar of every batch is
\* weight_t*loss_t + weight_x*loss_x + weight_c*(loss_c+loss_ca+loss_cb+loss_cc);
\* with weight_c = 0 it is weight_t*loss_t + weight_x*loss_x, no center
\* criterion was constructed and none is evaluated.
C2_BackpropagatedLoss ==
    batch_idx > 0 =>
        /\ engine.weight_c # 0 =>
              /\ Len(batch.loss_cs) = 4
              /\ batch.loss = engine.weight_t * batch.loss_t
                              + engine.weight_x * batch.loss_x
                              + engine.weight_c * (batch.loss_cs[1] + batch.loss_cs[2]
                                                   + batch.loss_cs[3] + batch.loss_cs[4])
        /\ engine.weight_c = 0 =>
              /\ batch.loss = engine.weight_t * batch.loss_t
                              + engine.weight_x * batch.loss_x
              /\ ~engine.criterion_c
              /\ batch.loss_cs = <<>>

C2_Witness ==
    /\ batch_idx > 0
    /\ engine.weight_c # 0
    /\ batch.loss_t > 0
    /\ Len(batch.loss_cs) = 4
    /\ \A i \in 1..4 : batch.loss_cs[i] > 0

\* C3: a train call over n batches makes exactly n optimizer steps and then,
\* only when a scheduler is configured, one scheduler step; the scheduler is
\* never stepped between two batches.
C3_SchedulerOncePerEpoch ==
    /\ pc = "loop" => steps = [i \in 1..batch_idx |-> "optimizer"]
    /\ (pc = "idle" /\ prevEpoch >= 0) =>
          steps = [i \in 1..engine.num_batches |-> "optimizer"]
                  \o (IF engine.scheduler THEN <<"scheduler">> ELSE <<>>)

C3_Witness ==
    /\ pc = "idle"
    /\ prevEpoch >= 0
    /\ engine.scheduler
    /\ engine.num_batches = 2
    /\ steps = <<"optimizer", "optimizer", "scheduler">>

\* C7: with open_layers None or empty, every layer is trainable during the
\* epoch, whatever epoch and fixbase_epoch are.
C7_EmptyOpenLayersTrainAll ==
    (pc = "loop" /\ (call.open_layers.none \/ call.open_layers.names = {})) =>
        trainable = Layers

\* C8: the writer's step key is epoch*num_batches + batch_idx, and over calls
\* for consecutive epochs 0, 1, 2, ... each emission's key is strictly
\* greater than the key of the emission before it.
C8_StepKeyIncreases ==
    /\ (pc = "loop" /\ call.writer /\ batch_idx > 0) =>
          n_iter = call.epoch * engine.num_batches + (batch_idx - 1)
    /\ (consecutive /\ n_iter >= 0) => prev_iter < n_iter

C8_Witness ==
    /\ consecutive
    /\ call.writer
    /\ call.epoch = 1
    /\ engine.num_batches = 2
    /\ batch_idx = 1
    /\ prev_iter = 1
    /\ n_iter = 2

KnownLossModes == {"softmax", "triplet"}

\* C4 (as claimed): in training mode with loss 'triplet', each returned
\* feature vector is the post-batch-normalization vector of its head.
C4_ReturnsPostBatchNorm ==
    out.kind = "triplet" =>
        \A h \in Heads :
            out.v[h] = BatchNormTrain(net.bn_weight[h], net.bn_bias[h], inp.x[h])

\* C4 (amended): in training mode with loss 'triplet', forward returns the
\* four logit sets and the four pooled vectors as they are before batch
\* normalization; each head's logits are computed from the batch-normalized
\* vector of that head.
C4_ReturnsPreBatchNorm ==
    out.kind = "triplet" =>
        /\ out.v = inp.x
        /\ \A h \in Heads :
              out.y[h] = Linear(net.cls_weight[h], net.cls_bias[h],
                                BatchNormTrain(net.bn_weight[h], net.bn_bias[h],
                                               inp.x[h]))

C4_Witness ==
    /\ out.kind = "triplet"
    /\ inp.training
    /\ \A h \in Heads : out.v[h][1] # out.v[h][2]

\* C5 (as claimed): with a loss mode other than 'softmax' or 'triplet' the
\* first forward call raises; with 'softmax' or 'triplet' forward never does.
C5_FirstCallRaises ==
    /\ (ncalls = 1 /\ net.loss \notin KnownLossModes) => out.kind = "KeyError"
    /\ net.loss \in KnownLossModes => out.kind # "KeyError"

\* C5 (amended): a forward call raises the unsupported-loss error exactly when
\* the loss mode is neither 'softmax' nor 'triplet' and the call is made in
\* training mode without return_featuremaps; in evaluation mode or with
\* return_featuremaps it returns a value whatever the loss mode.
C5_RaisesInTrainingModeOnly ==
    ncalls > 0 =>
        (out.kind = "KeyError" <=>
            (net.loss \notin KnownLossModes /\ inp.training
             /\ ~inp.return_featuremaps))

C5_Witness ==
    /\ ncalls = 1
    /\ net.loss = "center"
    /\ inp.training
    /\ out.kind = "KeyError"

\* C6: ChannelGate(...) constructs a gate exactly when gate_activation is
\* 'sigmoid', 'relu' or 'linear' and raises otherwise, so every gate that
\* exists holds one of the three known activations.
C6_GateConstruction ==
    gate.kind # "none" =>
        /\ gate.kind = "ChannelGate" <=>
              gate_args.gate_activation \in {"sigmoid", "relu", "linear"}
        /\ gate.kind = "RuntimeError" <=>
              gate_args.gate_activation \notin {"sigmoid", "relu", "linear"}
        /\ gate.kind = "ChannelGate" =>
              gate.gate_activation \in {"Sigmoid", "ReLU", "None"}

C6_Witness ==
    /\ gate.kind = "RuntimeError"
    /\ gate_args.gate_activation = "tanh"

RECURSIVE KeysWhere(_, _)
KeysWhere(items, want) ==
    IF items = <<>> THEN <<>>
    ELSE LET k == Rename(StripModule(Head(items).key))
             ok == k \in DOMAIN ModelDict0
                   /\ ModelDict0[k].size = Head(items).tensor.size
         IN (IF ok = want THEN <<k>> ELSE <<>>) \o KeysWhere(Tail(items), want)

LastIndex(S) == CHOOSE i \in S : \A j \in S : j <= i

\* C9: every checkpoint item goes, under its renamed key, to exactly one of
\* matched_layers and discarded_layers, to matched_layers exactly when the
\* renamed key is a model parameter of the same size; afterwards the model
\* holds the checkpoint tensor at every matched key (the last one, should two
\* items share a renamed key) and every other parameter is unchanged.
C9_LoaderPartition ==
    loaded =>
        LET n == Len(state_dict)
            key(i) == Rename(StripModule(state_dict[i].key))
            ok(i) == key(i) \in DOMAIN ModelDict0
                     /\ ModelDict0[key(i)].size = state_dict[i].tensor.size
        IN /\ matched_layers = KeysWhere(state_dict, TRUE)
           /\ discarded_layers = KeysWhere(state_dict, FALSE)
           /\ Len(matched_layers) + Len(discarded_layers) = n
           /\ DOMAIN model_dict = DOMAIN ModelDict0
           /\ \A k \in DOMAIN model_dict :
                 LET idx == {i \in 1..n : ok(i) /\ key(i) = k}
                 IN IF idx = {}
                    THEN model_dict[k] = ModelDict0[k]
                    ELSE model_dict[k] = state_dict[LastIndex(idx)].tensor

C9_Witness ==
    /\ loaded
    /\ Len(state_dict) = 2
    /\ state_dict[1].key = <<"module", "conv2", "0", "w">>
    /\ matched_layers = <<<<"conv2_0", "w">>>>
    /\ discarded_layers = <<<<"classifier", "w">>>>
    /\ model_dict[<<"conv2_0", "w">>] = state_dict[1].tensor
    /\ model_dict[<<"classifier", "w">>] = ModelDict0[<<"classifier", "w">>]

\* C10 (as claimed): every OSBlock that exists satisfies
\* mid_channels * bottleneck_reduction = out_channels (construction fails
\* when out_channels is not a multiple of bottleneck_reduction).
C10_ExactBottleneck ==
    block.kind = "OSBlock" =>
        block.mid_channels * block_args.bottleneck_reduction = block.out_channels

\* C10 (amended): OSBlock(...) never fails on divisibility: mid_channels is
\* the floor of out_channels / bottleneck_reduction, and
\* mid_channels * bottleneck_reduction = out_channels holds exactly when
\* out_channels is a multiple of bottleneck_reduction.
C10_FloorBottleneck ==
    block.kind # "none" =>
        /\ block.kind = "OSBlock"
        /\ block.out_channels = block_args.out_channels
        /\ block.mid_channels * block_args.bottleneck_reduction <= block.out_channels
        /\ block.out_channels
              < (block.mid_channels + 1) * block_args.bottleneck_reduction
        /\ (block.mid_channels * block_args.bottleneck_reduction = block.out_channels)
              <=> (block.out_channels % block_args.bottleneck_reduction = 0)

C10_Witness ==
    /\ block.kind = "OSBlock"
    /\ block.out_channels = 257
    /\ block_args.bottleneck_reduction = BottleneckReduction
    /\ block.mid_channels = 64

\* C11 (as claimed): with a writer, scalars are written only on the batches
\* on which the progress line is printed, those with (batch_idx + 1) a
\* multiple of print_freq.
C11_WriterGatedByPrintFreq ==
    call.writer =>
        /\ written = printed
        /\ \A b \in written : (b + 1) % call.print_freq = 0

\* C11 (amended): with a writer, scalars are written on every batch of the
\* call, whatever print_freq is; only the progress line is limited to the
\* batches with (batch_idx + 1) a multiple of print_freq; without a writer
\* nothing is written.
C11_WriterEveryBatch ==
    /\ written = IF call.writer THEN 0..(batch_idx - 1) ELSE {}
    /\ printed = {b \in 0..(batch_idx - 1) : (b + 1) % call.print_freq = 0}

C11_Witness ==
    /\ call.writer
    /\ call.print_freq = 2
    /\ batch_idx = 2
    /\ written = {0, 1}
    /\ printed = {1}

\* C12 (as claimed): the four branches are gated by four gates with
\* independent parameters: a change of the gate parameters used for one branch
\* leaves the gating of the other three branches as it was, on every input.
C12_IndependentGates ==
    [][\A k \in Branches :
          osb_params'[BranchGate(k)] # osb_params[BranchGate(k)] =>
              \A j \in Branches \ {k}, x \in BlockInputs :
                  GatedBranch(osb, osb_params', x, j) = GatedBranch(osb, osb_params, x, j)]_vars

\* C12 (amended): an OSBlock holds one ChannelGate, and so one set of gate
\* parameters; forward gates each of the four branch outputs (depth 1, 2, 3
\* and 4) with that gate and those parameters, and the fused value x2 is the
\* sum of the four gated branch outputs.
C12_OneSharedGate ==
    /\ Cardinality(DOMAIN osb_params) = 1
    /\ fwd.kind = "ret" =>
          LET p == fwd.params[CHOOSE g \in DOMAIN fwd.params : TRUE]
              x1 == Conv1x1(BlockWeights.conv1, fwd.x)
          IN /\ \A br \in Branches :
                    /\ fwd.branch[br] = Stack(Depth(br), BlockWeights.light, x1)
                    /\ fwd.gated[br] = ChannelGateForward(osb.gate, p, fwd.branch[br])
             /\ \A i \in Pos :
                    fwd.x2[i] = fwd.gated["a"][i] + fwd.gated["b"][i]
                                + fwd.gated["c"][i] + fwd.gated["d"][i]

\* A forward call whose four gated branch outputs differ from each other,
\* with gate parameters whose change would change the gating of every branch.
C12_Witness ==
    /\ fwd.kind = "ret"
    /\ fwd.params = osb_params
    /\ \A j, k \in Branches : j # k => fwd.gated[j] # fwd.gated[k]
    /\ \E p \in GateParamVals :
          LET changed == [g \in DOMAIN osb_params |-> p]
          IN \A br \in Branches :
                GatedBranch(osb, changed, fwd.x, br) # fwd.gated[br]

\* C13 (as claimed): with instance normalization enabled the final ReLU
\* receives out = conv3(x2) + identity as it is before the normalization; the
\* second returned element is x2; identity is the block input when in_channels
\* equals out_channels and its 1x1-linear projection otherwise.
C13_ReluBeforeIN ==
    fwd.kind = "ret" =>
        /\ osb.IN_ => fwd.ret[1] = Relu(Plus(fwd.x3, Scale(8, fwd.identity)))
        /\ fwd.ret[2] = fwd.x2
        /\ fwd.identity = IF osb.in_channels = osb.out_channels
                          THEN fwd.x
                          ELSE Conv1x1Linear(BlockWeights.downsample, fwd.x)

\* C13 (amended): the final ReLU receives the residual sum conv3(x2) +
\* identity after instance normalization when the block has IN, and the sum
\* itself when it has none; the second returned element is x2; identity is
\* the unmodified block input when in_channels equals out_channels (no
\* projection is allocated) and the 1x1-linear projection of it otherwise.
C13_ReluAfterIN ==
    fwd.kind = "ret" =>
        LET sum == Plus(Conv1x1Linear(BlockWeights.conv3, fwd.x2), Scale(8, fwd.identity))
        IN /\ fwd.ret[1] = IF osb.IN_
                           THEN Relu(InstanceNorm(BlockWeights.IN_w, BlockWeights.IN_b, sum))
                           ELSE Relu(sum)
           /\ fwd.ret[2] = fwd.x2
           /\ osb.downsample = (osb.in_channels # osb.out_channels)
           /\ fwd.identity = IF osb.in_channels = osb.out_channels
                             THEN fwd.x
                             ELSE Conv1x1Linear(BlockWeights.downsample, fwd.x)

\* A forward call of a block with IN and a projection whose result is not
\* the ReLU of the residual sum.
C13_Witness ==
    /\ fwd.kind = "ret"
    /\ osb.IN_
    /\ osb.in_channels # osb.out_channels
    /\ fwd.identity # fwd.x
    /\ fwd.ret[1] # Relu(Plus(fwd.x3, Scale(8, fwd.identity)))
    /\ fwd.ret[1] = Relu(fwd.out)

====
